---- MODULE Spec2Model ----
(***************************************************************************)
(* Lowering of rustc MIR function bodies to GCC trees (mir2gimple.rs) over *)
(* the tree construction API of gcc_api.rs.  The GCC side is an arena of   *)
(* nodes addressed by handles; the lowering is a straight-line program     *)
(* whose position is pc.                                                   *)
(***************************************************************************)
EXTENDS Integers, Sequences, FiniteSets, TLC

VARIABLES
    unit,            \* the (name, body) pairs tcx.mir_keys yields, in order
    fidx,            \* index in unit of the function being lowered
    pc,              \* position in mir2gimple / func_mir_to_gcc
    bi,              \* index (1-based) of the basic block being converted
    si,              \* index of the next statement of that block
    err,             \* the panic that unwound the pass, "none" while running
    return_type,     \* FunctionConversion::new locals
    arg_types,
    fn_decl,         \* FunctionConversion fields
    res_decl,
    parm_decls,
    block_labels,
    main_gcc_block,
    stmt_list,
    nodes,           \* GCC's tree arena: handle h is nodes[h]
    fns,             \* per function declaration: what the set_fn_* calls stored
    calls            \* every call made on the backend, in order

vars == <<unit, fidx, pc, bi, si, err, return_type, arg_types, fn_decl, res_decl,
          parm_decls, block_labels, main_gcc_block, stmt_list, nodes, fns, calls>>

\* ---------------------------------------------------------------- bounds
MaxFuncs == 3
MaxBlocks == 3
MaxStmts == 3
MaxArgs == 3

\* ------------------------------------------------------- 128-bit scalars
\* Scalar::Raw { data: u128, .. } as 16 little-endian bytes.
U128Bytes == 16
I64Bytes == 8

Byte(n) == [i \in 1..U128Bytes |-> IF i = 1 THEN n ELSE 0]
AllOnes(w) == [i \in 1..U128Bytes |-> IF i <= w THEN 255 ELSE 0]
SignedMax(w) == [i \in 1..U128Bytes |-> IF i < w THEN 255 ELSE IF i = w THEN 127 ELSE 0]
SignBit(w) == [i \in 1..U128Bytes |-> IF i = w THEN 128 ELSE 0]

\* An integer value: sign and magnitude (16 little-endian bytes).
Num(neg, mag) == [neg |-> neg, mag |-> mag]
NoNum == Num(FALSE, <<>>)

RECURSIVE AddOne(_, _)
AddOne(bytes, i) ==
    IF i > Len(bytes) THEN bytes
    ELSE IF bytes[i] = 255 THEN AddOne([bytes EXCEPT ![i] = 0], i + 1)
    ELSE [bytes EXCEPT ![i] = bytes[i] + 1]

\* 2^(8w) - data, for 0 < data < 2^(8w).
TwosComplement(data, w) ==
    AddOne([i \in 1..U128Bytes |-> IF i <= w THEN 255 - data[i] ELSE 0], 1)

\* `data as i64`: the low 64 bits, reinterpreted as signed.
TryIntoI64Wrapping(data) ==
    LET low == [i \in 1..U128Bytes |-> IF i <= I64Bytes THEN data[i] ELSE 0] IN
    [ok |-> TRUE,
     val |-> IF low[I64Bytes] < 128 THEN Num(FALSE, low)
             ELSE Num(TRUE, TwosComplement(low, I64Bytes))]

\* <u128 as TryInto<i64>>::try_into: Ok exactly for data <= i64::MAX.
TryIntoI64(data) ==
    IF (\A i \in (I64Bytes + 1)..U128Bytes : data[i] = 0) /\ data[I64Bytes] < 128
    THEN [ok |-> TRUE, val |-> Num(FALSE, data)]
    ELSE [ok |-> FALSE, val |-> NoNum]

\* ------------------------------------------------------------- MIR types
Ty(kind, sub, n) == [kind |-> kind, sub |-> sub, n |-> n]
NoTy == Ty("", "", 0)
UnitTy == Ty("Tuple", "", 0)
IntTy(s) == Ty("Int", s, 0)
UintTy(s) == Ty("Uint", s, 0)

IntWidths == {"Isize", "I8", "I16", "I32", "I64"}
UintWidths == {"Usize", "U8", "U16", "U32", "U64"}
SupportedTys == {UnitTy} \cup {IntTy(s) : s \in IntWidths} \cup {UintTy(s) : s \in UintWidths}
OtherTys == {Ty("Tuple", "", 2), Ty("Bool", "", 0), Ty("Char", "", 0), IntTy("I128"),
             UintTy("U128"), Ty("Float", "F32", 0), Ty("Float", "F64", 0),
             Ty("Adt", "", 0), Ty("Ref", "", 0)}
AllTys == SupportedTys \cup OtherTys

\* Bytes a scalar of the type occupies (pointers are 64 bit on the target).
SizeOf(ty) ==
    CASE ty.sub \in {"I8", "U8"} -> 1
      [] ty.sub \in {"I16", "U16"} -> 2
      [] ty.sub \in {"I32", "U32"} -> 4
      [] ty.sub \in {"I64", "U64", "Isize", "Usize"} -> 8
      [] ty.sub \in {"I128", "U128"} -> 16
      [] OTHER -> 1

\* ------------------------------------------------------------ GCC arena
NULL_TREE == 0

Node(code, name, ty, ops, value) ==
    [code |-> code, name |-> name, ty |-> ty, ops |-> ops, value |-> value]

\* enum IntegerTypeKind, by discriminant
IntegerTypeKind ==
    [Char |-> 0, SignedChar |-> 1, UnsignedChar |-> 2, Short |-> 3, UnsignedShort |-> 4,
     Int |-> 5, UnsignedInt |-> 6, Long |-> 7, UnsignedLong |-> 8, LongLong |-> 9,
     UnsignedLongLong |-> 10]

IntegerTypeNames ==
    <<"char", "signed char", "unsigned char", "short", "unsigned short", "int",
      "unsigned int", "long", "unsigned long", "long long", "unsigned long long">>

\* static integer_types: the handle of each integer kind, by discriminant
integer_types == [k \in 0..(Len(IntegerTypeNames) - 1) |-> k + 1]

\* static global_trees, of which only TreeIndex::VoidType is read
VoidTypeHandle == Len(IntegerTypeNames) + 1
global_trees == [k \in {"VoidType"} |-> VoidTypeHandle]

\* The arena before any lowering: the interned primitive types.
InitialNodes ==
    [h \in 1..VoidTypeHandle |->
        IF h = VoidTypeHandle THEN Node("VoidType", "void", NULL_TREE, <<>>, NoNum)
        ELSE Node("IntegerType", IntegerTypeNames[h], NULL_TREE, <<>>, NoNum)]

FromIntegerTypeKind(itk) == integer_types[itk]
FromTreeIndex(index) == global_trees[index]

Ok(tree) == [ok |-> TRUE, tree |-> tree]
Unimplemented == [ok |-> FALSE, tree |-> NULL_TREE]

convert_type_isize_as_long_long(ty) ==
    CASE ty.kind = "Tuple" /\ ty.n = 0 -> Ok(FromTreeIndex("VoidType"))
      [] ty.kind = "Int" /\ ty.sub \in {"Isize", "I64"} ->
            Ok(FromIntegerTypeKind(IntegerTypeKind.LongLong))
      [] ty.kind = "Int" /\ ty.sub = "I8" -> Ok(FromIntegerTypeKind(IntegerTypeKind.SignedChar))
      [] ty.kind = "Int" /\ ty.sub = "I16" -> Ok(FromIntegerTypeKind(IntegerTypeKind.Short))
      [] ty.kind = "Int" /\ ty.sub = "I32" -> Ok(FromIntegerTypeKind(IntegerTypeKind.Int))
      [] ty.kind = "Uint" /\ ty.sub = "Usize" ->
            Ok(FromIntegerTypeKind(IntegerTypeKind.UnsignedLong))
      [] ty.kind = "Uint" /\ ty.sub = "U8" ->
            Ok(FromIntegerTypeKind(IntegerTypeKind.UnsignedChar))
      [] ty.kind = "Uint" /\ ty.sub = "U16" ->
            Ok(FromIntegerTypeKind(IntegerTypeKind.UnsignedShort))
      [] ty.kind = "Uint" /\ ty.sub = "U32" ->
            Ok(FromIntegerTypeKind(IntegerTypeKind.UnsignedInt))
      [] ty.kind = "Uint" /\ ty.sub = "U64" ->
            Ok(FromIntegerTypeKind(IntegerTypeKind.UnsignedLongLong))
      [] ty.kind = "Bool" -> Ok(FromIntegerTypeKind(IntegerTypeKind.UnsignedChar))
      [] OTHER -> Unimplemented

convert_type(ty) ==
    CASE ty.kind = "Tuple" /\ ty.n = 0 -> Ok(FromTreeIndex("VoidType"))
      [] ty.kind = "Int" /\ ty.sub = "Isize" -> Ok(FromIntegerTypeKind(IntegerTypeKind.Long))
      [] ty.kind = "Int" /\ ty.sub = "I8" -> Ok(FromIntegerTypeKind(IntegerTypeKind.SignedChar))
      [] ty.kind = "Int" /\ ty.sub = "I16" -> Ok(FromIntegerTypeKind(IntegerTypeKind.Short))
      [] ty.kind = "Int" /\ ty.sub = "I32" -> Ok(FromIntegerTypeKind(IntegerTypeKind.Int))
      [] ty.kind = "Int" /\ ty.sub = "I64" -> Ok(FromIntegerTypeKind(IntegerTypeKind.LongLong))
      [] ty.kind = "Uint" /\ ty.sub = "Usize" ->
            Ok(FromIntegerTypeKind(IntegerTypeKind.UnsignedLong))
      [] ty.kind = "Uint" /\ ty.sub = "U8" ->
            Ok(FromIntegerTypeKind(IntegerTypeKind.UnsignedChar))
      [] ty.kind = "Uint" /\ ty.sub = "U16" ->
            Ok(FromIntegerTypeKind(IntegerTypeKind.UnsignedShort))
      [] ty.kind = "Uint" /\ ty.sub = "U32" ->
            Ok(FromIntegerTypeKind(IntegerTypeKind.UnsignedInt))
      [] ty.kind = "Uint" /\ ty.sub = "U64" ->
            Ok(FromIntegerTypeKind(IntegerTypeKind.UnsignedLongLong))
      [] OTHER -> Unimplemented

\* --------------------------------------------------------------- MIR input
Place(base, local, projection) == [base |-> base, local |-> local, projection |-> projection]
Local(n) == Place("Local", n, <<>>)
NoPlace == Place("", 0, <<>>)

\* ty::Const: its type and its ConstKind / ConstValue / Scalar shape
Const(ty, val, data) == [ty |-> ty, val |-> val, data |-> data]
NoConst == Const(NoTy, "", <<>>)

Rvalue(kind, place, literal) == [kind |-> kind, place |-> place, literal |-> literal]
UseCopy(p) == Rvalue("Use(Copy)", p, NoConst)
UseMove(p) == Rvalue("Use(Move)", p, NoConst)
UseConstant(c) == Rvalue("Use(Constant)", NoPlace, c)
NoRvalue == Rvalue("", NoPlace, NoConst)

Statement(kind, place, rvalue) == [kind |-> kind, place |-> place, rvalue |-> rvalue]
Assign(p, rv) == Statement("Assign", p, rv)
Marker(kind) == Statement(kind, NoPlace, NoRvalue)

BasicBlockData(statements, terminator) ==
    [statements |-> statements, terminator |-> terminator]

Body(name, return_ty, args, basic_blocks) ==
    [name |-> name, return_ty |-> return_ty, args |-> args, basic_blocks |-> basic_blocks]

\* --------------------------------------------------------- backend calls
Call(op, name, ty, args, flag, res) ==
    [fn |-> fidx, op |-> op, name |-> name, ty |-> ty, args |-> args, flag |-> flag,
     res |-> res]

ConvertTypeCall(ty) == Call("convert_type", "", ty, <<>>, FALSE, convert_type(ty).tree)

\* The handle the arena gives the k-th node allocated from now on.
Alloc(k) == Len(nodes) + k

\* ---------------------------------------------------------- FunctionConversion
Resolved(tree) == [err |-> "none", tree |-> tree]
Panic(e) == [err |-> e, tree |-> NULL_TREE]

get_place_off_by_one(place) ==
    IF place.projection # <<>> THEN Panic("unimplemented-projection")
    ELSE IF place.base = "Local"
    THEN IF place.local = 0 THEN Resolved(res_decl)
         ELSE IF place.local <= Len(parm_decls) THEN Resolved(parm_decls[Len(parm_decls)])
         ELSE Panic("unimplemented-local")
    ELSE Panic("unimplemented-base")

get_place_ignoring_projection(place) ==
    IF place.base = "Local"
    THEN IF place.local = 0 THEN Resolved(res_decl)
         ELSE IF place.local <= Len(parm_decls) THEN Resolved(parm_decls[place.local])
         ELSE Panic("unimplemented-local")
    ELSE Panic("unimplemented-base")

get_place(place) ==
    IF place.projection # <<>> THEN Panic("unimplemented-projection")
    ELSE IF place.base = "Local"
    THEN IF place.local = 0 THEN Resolved(res_decl)
         ELSE IF place.local <= Len(parm_decls) THEN Resolved(parm_decls[place.local])
         ELSE Panic("unimplemented-local")
    ELSE Panic("unimplemented-base")

\* What lowering an rvalue yields: the panic or the tree, the nodes it had the
\* backend allocate and the calls it made.
Lowered(e, tree, new, made) == [err |-> e, tree |-> tree, new |-> new, made |-> made]

new_int_constant(int_type, value) == Node("IntegerCst", "", int_type, <<>>, value)

convert_rvalue(rv) ==
    CASE rv.kind \in {"Use(Copy)", "Use(Move)"} ->
            Lowered(get_place(rv.place).err, get_place(rv.place).tree, <<>>, <<>>)
      [] rv.kind = "Use(Constant)" ->
            LET lit == rv.literal IN
            IF lit.val = "Value(Scalar(Raw))"
            THEN IF lit.ty.kind \in {"Int", "Uint"}
                 THEN IF ~convert_type(lit.ty).ok
                      THEN Lowered("unimplemented-type", NULL_TREE, <<>>,
                                   <<ConvertTypeCall(lit.ty)>>)
                      ELSE IF ~TryIntoI64(lit.data).ok
                      THEN Lowered("unwrap-TryFromIntError", NULL_TREE, <<>>,
                                   <<ConvertTypeCall(lit.ty)>>)
                      ELSE Lowered("none", Alloc(1),
                                   <<new_int_constant(convert_type(lit.ty).tree,
                                                      TryIntoI64(lit.data).val)>>,
                                   <<ConvertTypeCall(lit.ty),
                                     Call("build_int_constant", "", NoTy,
                                          <<convert_type(lit.ty).tree>>, FALSE, Alloc(1))>>)
                 ELSE Lowered("unimplemented-const", NULL_TREE, <<>>, <<>>)
            ELSE Lowered("unimplemented-const", NULL_TREE, <<>>, <<>>)
      [] OTHER -> Lowered("unimplemented-rvalue", NULL_TREE, <<>>, <<>>)

new_init_expr(var, value) == Node("InitExpr", "", FromTreeIndex("VoidType"), <<var, value>>, NoNum)
new_return_expr(value) == Node("ReturnExpr", "", FromTreeIndex("VoidType"), <<value>>, NoNum)
new_function_type(ret, args) == Node("FunctionType", "", ret, args, NoNum)
new_fn_decl(name, type) == Node("FunctionDecl", name, type, <<>>, NoNum)
new_block(vs, subblocks, supercontext, chain) ==
    Node("Block", "", NULL_TREE, <<vs, subblocks, supercontext, chain>>, NoNum)
new_bind_expr(vs, body, block) ==
    Node("BindExpr", "", FromTreeIndex("VoidType"), <<vs, body, block>>, NoNum)
new_result_decl(type) == Node("ResultDecl", "", type, <<>>, NoNum)
new_artificial_label == Node("LabelDecl", "", FromTreeIndex("VoidType"), <<>>, NoNum)
new_statement_list == Node("StatementList", "", NULL_TREE, <<>>, NoNum)
\* add_fn_parm_decls: one parameter declaration per argument type, in argument order
new_parm_decl(f, type) == Node("ParmDecl", "", type, <<f>>, NoNum)

\* What the backend holds for a function declaration _build_fn_decl returned.
NewFn ==
    [external |-> TRUE, preserve_p |-> FALSE, initial |-> NULL_TREE, result |-> NULL_TREE,
     parms |-> <<>>, saved_tree |-> NULL_TREE, gimplified |-> FALSE, finalized |-> FALSE,
     no_collect |-> FALSE]

\* StatementList::push, on the arena as it is once `stmt` was built
push_front(arena, stmt) == [arena EXCEPT ![stmt_list].ops = <<stmt>> \o @]

push(arena, stmt) == [arena EXCEPT ![stmt_list].ops = Append(@, stmt)]
PushCall(stmt) == Call("append_to_statement_list", "", NoTy, <<stmt>>, FALSE, stmt_list)

Cur == unit[fidx]
CurBlock == Cur.basic_blocks[bi]

\* unimplemented!(..) and unwrap() on Err panic; nothing in mir2gimple catches
\* the unwind, so the pass ends there.
Abort_and_continue(e) == err' = e /\ pc' = IF bi >= 1 THEN "finalize" ELSE "aborted"

Abort(e) == err' = e /\ pc' = "aborted"

conversion == <<return_type, arg_types, fn_decl, res_decl, parm_decls, block_labels,
                main_gcc_block, stmt_list>>

\* mir2gimple's loop takes the next function; FunctionConversion::new lowers
\* its return type.
MakeFunctionReturnType ==
    /\ pc = "loop" /\ fidx <= Len(unit)
    /\ calls' = Append(calls, ConvertTypeCall(Cur.return_ty))
    /\ IF convert_type(Cur.return_ty).ok
       THEN /\ return_type' = convert_type(Cur.return_ty).tree
            /\ pc' = "arg_types"
            /\ err' = err
       ELSE /\ Abort("unimplemented-type")
            /\ return_type' = return_type
    /\ UNCHANGED <<unit, fidx, bi, si, arg_types, fn_decl, res_decl, parm_decls,
                   block_labels, main_gcc_block, stmt_list, nodes, fns>>

\* The first argument whose type convert_type refuses, 0 when there is none.
FirstRefused(tys) ==
    IF \E i \in 1..Len(tys) : ~convert_type(tys[i]).ok
    THEN CHOOSE i \in 1..Len(tys) :
            ~convert_type(tys[i]).ok /\ \A j \in 1..(i - 1) : convert_type(tys[j]).ok
    ELSE 0

MakeFunctionArgTypes ==
    /\ pc = "arg_types"
    /\ LET k == FirstRefused(Cur.args)
           n == IF k = 0 THEN Len(Cur.args) ELSE k
       IN /\ calls' = calls \o [i \in 1..n |-> ConvertTypeCall(Cur.args[i])]
          /\ IF k = 0
             THEN /\ arg_types' = [i \in 1..Len(Cur.args) |-> convert_type(Cur.args[i]).tree]
                  /\ pc' = "fn_decl"
                  /\ err' = err
             ELSE /\ Abort("unimplemented-type")
                  /\ arg_types' = arg_types
    /\ UNCHANGED <<unit, fidx, bi, si, return_type, fn_decl, res_decl, parm_decls,
                   block_labels, main_gcc_block, stmt_list, nodes, fns>>

\* A declaration of the same name built earlier is reused instead of requested.
NewFunctionMemoized ==
    /\ pc = "fn_decl"
    /\ IF \E h \in DOMAIN fns : nodes[h].name = Cur.name
       THEN /\ fn_decl' = CHOOSE h \in DOMAIN fns : nodes[h].name = Cur.name
            /\ UNCHANGED <<nodes, fns, calls>>
       ELSE /\ nodes' = nodes \o <<new_function_type(return_type, arg_types),
                                   new_fn_decl(Cur.name, Alloc(1))>>
            /\ fn_decl' = Alloc(2)
            /\ fns' = fns @@ (Alloc(2) :> [NewFn EXCEPT !.external = FALSE,
                                                        !.preserve_p = TRUE])
            /\ calls' = calls \o
                  <<Call("build_function_type_array", "", NoTy, <<return_type>> \o arg_types,
                         FALSE, Alloc(1)),
                    Call("build_fn_decl", Cur.name, NoTy, <<Alloc(1)>>, FALSE, Alloc(2)),
                    Call("set_fn_external", "", NoTy, <<Alloc(2)>>, FALSE, NULL_TREE),
                    Call("set_fn_preserve_p", "", NoTy, <<Alloc(2)>>, TRUE, NULL_TREE)>>
    /\ pc' = "main_block"
    /\ UNCHANGED <<unit, fidx, bi, si, err, return_type, arg_types, res_decl, parm_decls,
                   block_labels, main_gcc_block, stmt_list>>

NewFunction ==
    /\ pc = "fn_decl"
    /\ nodes' = nodes \o <<new_function_type(return_type, arg_types),
                           new_fn_decl(Cur.name, Alloc(1))>>
    /\ fn_decl' = Alloc(2)
    /\ fns' = fns @@ (Alloc(2) :> [NewFn EXCEPT !.external = FALSE, !.preserve_p = TRUE])
    /\ calls' = calls \o
          <<Call("build_function_type_array", "", NoTy, <<return_type>> \o arg_types,
                 FALSE, Alloc(1)),
            Call("build_fn_decl", Cur.name, NoTy, <<Alloc(1)>>, FALSE, Alloc(2)),
            Call("set_fn_external", "", NoTy, <<Alloc(2)>>, FALSE, NULL_TREE),
            Call("set_fn_preserve_p", "", NoTy, <<Alloc(2)>>, TRUE, NULL_TREE)>>
    /\ pc' = "main_block"
    /\ UNCHANGED <<unit, fidx, bi, si, err, return_type, arg_types, res_decl, parm_decls,
                   block_labels, main_gcc_block, stmt_list>>

NewMainBlock ==
    /\ pc = "main_block"
    /\ nodes' = Append(nodes, new_block(NULL_TREE, NULL_TREE, fn_decl, NULL_TREE))
    /\ main_gcc_block' = Alloc(1)
    /\ fns' = [fns EXCEPT ![fn_decl].initial = Alloc(1)]
    /\ calls' = calls \o
          <<Call("build_block", "", NoTy, <<NULL_TREE, NULL_TREE, fn_decl, NULL_TREE>>,
                 FALSE, Alloc(1)),
            Call("set_fn_initial", "", NoTy, <<fn_decl, Alloc(1)>>, FALSE, NULL_TREE)>>
    /\ pc' = "res_decl"
    /\ UNCHANGED <<unit, fidx, bi, si, err, return_type, arg_types, fn_decl, res_decl,
                   parm_decls, block_labels, stmt_list>>

NewResultDecl ==
    /\ pc = "res_decl"
    /\ nodes' = Append(nodes, new_result_decl(return_type))
    /\ res_decl' = Alloc(1)
    /\ fns' = [fns EXCEPT ![fn_decl].result = Alloc(1)]
    /\ calls' = calls \o
          <<Call("build_decl", "", NoTy, <<return_type>>, FALSE, Alloc(1)),
            Call("set_fn_result", "", NoTy, <<fn_decl, Alloc(1)>>, FALSE, NULL_TREE)>>
    /\ pc' = "parm_decls"
    /\ UNCHANGED <<unit, fidx, bi, si, err, return_type, arg_types, fn_decl, parm_decls,
                   block_labels, main_gcc_block, stmt_list>>

add_parm_decls == [i \in 1..Len(arg_types) |-> Alloc(i)]

AddParmDecls ==
    /\ pc = "parm_decls"
    /\ nodes' = nodes \o [i \in 1..Len(arg_types) |-> new_parm_decl(fn_decl, arg_types[i])]
    /\ parm_decls' = add_parm_decls
    /\ fns' = [fns EXCEPT ![fn_decl].parms = add_parm_decls]
    /\ calls' = Append(calls, Call("add_fn_parm_decls", "", NoTy, <<fn_decl>> \o arg_types,
                                   FALSE, NULL_TREE))
    /\ pc' = "labels"
    /\ UNCHANGED <<unit, fidx, bi, si, err, return_type, arg_types, fn_decl, res_decl,
                   block_labels, main_gcc_block, stmt_list>>

NewBlockLabels ==
    /\ pc = "labels"
    /\ nodes' = nodes \o [b \in 1..Len(Cur.basic_blocks) |-> new_artificial_label]
    /\ block_labels' = [b \in 1..Len(Cur.basic_blocks) |-> Alloc(b)]
    /\ calls' = calls \o [b \in 1..Len(Cur.basic_blocks) |->
                            Call("create_artificial_label", "", NoTy, <<>>, FALSE, Alloc(b))]
    /\ pc' = "stmt_list"
    /\ UNCHANGED <<unit, fidx, bi, si, err, return_type, arg_types, fn_decl, res_decl,
                   parm_decls, main_gcc_block, stmt_list, fns>>

\* The last step of FunctionConversion::new; func_mir_to_gcc then enters its loop
\* over the blocks.
NewStatementList ==
    /\ pc = "stmt_list"
    /\ nodes' = Append(nodes, new_statement_list)
    /\ stmt_list' = Alloc(1)
    /\ calls' = Append(calls, Call("alloc_stmt_list", "", NoTy, <<>>, FALSE, Alloc(1)))
    /\ bi' = 1
    /\ pc' = IF Len(Cur.basic_blocks) = 0 THEN "finalize" ELSE "block"
    /\ UNCHANGED <<unit, fidx, si, err, return_type, arg_types, fn_decl, res_decl,
                   parm_decls, block_labels, main_gcc_block, fns>>

\* ------------------------------------------------------ convert_basic_block
\* All labels pushed ahead of the first block, none at the later ones.
PushBlockLabelEager ==
    /\ pc = "block"
    /\ nodes' = IF bi = 1
                THEN [nodes EXCEPT ![stmt_list].ops = @ \o block_labels]
                ELSE nodes
    /\ calls' = IF bi = 1
                THEN calls \o [b \in 1..Len(block_labels) |-> PushCall(block_labels[b])]
                ELSE calls
    /\ si' = 1
    /\ pc' = "stmt"
    /\ UNCHANGED <<unit, fidx, bi, err, conversion, fns>>

PushBlockLabel ==
    /\ pc = "block"
    /\ nodes' = push(nodes, block_labels[bi])
    /\ calls' = Append(calls, PushCall(block_labels[bi]))
    /\ si' = 1
    /\ pc' = "stmt"
    /\ UNCHANGED <<unit, fidx, bi, err, conversion, fns>>

ConvertStatement ==
    /\ pc = "stmt" /\ si <= Len(CurBlock.statements)
    /\ LET stmt == CurBlock.statements[si]
           place == get_place(stmt.place)
           rvalue == convert_rvalue(stmt.rvalue)
           init == Alloc(Len(rvalue.new) + 1)
       IN CASE stmt.kind \in {"StorageLive", "StorageDead", "Nop"} ->
                 /\ si' = si + 1
                 /\ UNCHANGED <<pc, err, nodes, calls>>
            [] stmt.kind = "Assign" /\ place.err # "none" ->
                 /\ Abort(place.err)
                 /\ UNCHANGED <<si, nodes, calls>>
            [] stmt.kind = "Assign" /\ place.err = "none" /\ rvalue.err # "none" ->
                 /\ Abort(rvalue.err)
                 /\ calls' = calls \o rvalue.made
                 /\ UNCHANGED <<si, nodes>>
            [] stmt.kind = "Assign" /\ place.err = "none" /\ rvalue.err = "none" ->
                 /\ nodes' = push(nodes \o rvalue.new
                                     \o <<new_init_expr(place.tree, rvalue.tree)>>, init)
                 /\ calls' = calls \o rvalue.made \o
                       <<Call("build2", "InitExpr", NoTy, <<place.tree, rvalue.tree>>,
                              FALSE, init),
                         PushCall(init)>>
                 /\ si' = si + 1
                 /\ UNCHANGED <<pc, err>>
            [] OTHER ->
                 /\ Abort("unimplemented-statement")
                 /\ UNCHANGED <<si, nodes, calls>>
    /\ UNCHANGED <<unit, fidx, bi, conversion, fns>>

ConvertTerminator ==
    /\ pc = "stmt" /\ si > Len(CurBlock.statements)
    /\ IF CurBlock.terminator = "Return"
       THEN /\ nodes' = push(Append(nodes, new_return_expr(res_decl)), Alloc(1))
            /\ calls' = calls \o
                  <<Call("build1", "ReturnExpr", NoTy, <<res_decl>>, FALSE, Alloc(1)),
                    PushCall(Alloc(1))>>
            /\ IF bi < Len(Cur.basic_blocks)
               THEN bi' = bi + 1 /\ pc' = "block"
               ELSE bi' = bi /\ pc' = "finalize"
            /\ err' = err
       ELSE /\ Abort("unimplemented-terminator")
            /\ UNCHANGED <<bi, nodes, calls>>
    /\ UNCHANGED <<unit, fidx, si, conversion, fns>>

\* ----------------------------------------------------------------- finalize
\* The body is gimplified before it is attached.
BindBodyAfterGimplify ==
    /\ pc = "finalize"
    /\ nodes' = Append(nodes, new_bind_expr(NULL_TREE, stmt_list, main_gcc_block))
    /\ fns' = [fns EXCEPT ![fn_decl].saved_tree = Alloc(1), ![fn_decl].gimplified = TRUE]
    /\ calls' = calls \o
          <<Call("build3", "BindExpr", NoTy, <<NULL_TREE, stmt_list, main_gcc_block>>,
                 FALSE, Alloc(1)),
            Call("gimplify_function_tree", "", NoTy, <<fn_decl>>, FALSE, NULL_TREE),
            Call("set_fn_saved_tree", "", NoTy, <<fn_decl, Alloc(1)>>, FALSE, NULL_TREE)>>
    /\ pc' = "finalize_function"
    /\ UNCHANGED <<unit, fidx, bi, si, err, conversion>>

BindBody ==
    /\ pc = "finalize"
    /\ nodes' = Append(nodes, new_bind_expr(NULL_TREE, stmt_list, main_gcc_block))
    /\ fns' = [fns EXCEPT ![fn_decl].saved_tree = Alloc(1)]
    /\ calls' = calls \o
          <<Call("build3", "BindExpr", NoTy, <<NULL_TREE, stmt_list, main_gcc_block>>,
                 FALSE, Alloc(1)),
            Call("set_fn_saved_tree", "", NoTy, <<fn_decl, Alloc(1)>>, FALSE, NULL_TREE)>>
    /\ pc' = "gimplify"
    /\ UNCHANGED <<unit, fidx, bi, si, err, conversion>>

Gimplify ==
    /\ pc = "gimplify"
    /\ fns' = [fns EXCEPT ![fn_decl].gimplified = TRUE]
    /\ calls' = Append(calls, Call("gimplify_function_tree", "", NoTy, <<fn_decl>>, FALSE,
                                   NULL_TREE))
    /\ pc' = "finalize_function"
    /\ UNCHANGED <<unit, fidx, bi, si, err, conversion, nodes>>

\* Function::finalize, which ends FunctionConversion::finalize and with it
\* func_mir_to_gcc: the conversion is dropped and mir2gimple's loop goes on.
FinalizeFunction ==
    /\ pc = "finalize_function"
    /\ fns' = [fns EXCEPT ![fn_decl].finalized = TRUE, ![fn_decl].no_collect = TRUE]
    /\ calls' = Append(calls, Call("finalize_function", "", NoTy, <<fn_decl>>, TRUE,
                                   NULL_TREE))
    /\ fidx' = fidx + 1
    /\ pc' = "loop"
    /\ return_type' = NULL_TREE /\ arg_types' = <<>> /\ fn_decl' = NULL_TREE
    /\ res_decl' = NULL_TREE /\ parm_decls' = <<>> /\ block_labels' = <<>>
    /\ main_gcc_block' = NULL_TREE /\ stmt_list' = NULL_TREE
    /\ bi' = 0 /\ si' = 0
    /\ UNCHANGED <<unit, err, nodes>>

\* mir2gimple's loop has taken every key.
Done ==
    /\ pc = "loop" /\ fidx > Len(unit)
    /\ pc' = "done"
    /\ UNCHANGED <<unit, fidx, bi, si, err, conversion, nodes, fns, calls>>

\* ---------------------------------------------------------------- inputs
I32 == IntTy("I32")
ScalarRaw(ty, data) == Const(ty, "Value(Scalar(Raw))", data)

SeqsUpTo(S, lo, hi) == UNION {[1..n -> S] : n \in lo..hi}

\* fn identity(x: i32) -> i32 { x }   and   fn answer() -> i32 { 42 }
identity ==
    Body("identity", I32, <<I32>>,
         <<BasicBlockData(<<Assign(Local(0), UseCopy(Local(1)))>>, "Return")>>)
answer ==
    Body("answer", I32, <<>>,
         <<BasicBlockData(<<Assign(Local(0), UseConstant(ScalarRaw(I32, Byte(42))))>>,
                          "Return")>>)
fallthrough ==
    Body("fallthrough", I32, <<I32>>,
         <<BasicBlockData(<<Marker("StorageLive")>>, "Goto"),
           BasicBlockData(<<Assign(Local(0), UseMove(Local(1)))>>, "Return")>>)
is_zero == Body("is_zero", Ty("Bool", "", 0), <<I32>>, <<BasicBlockData(<<>>, "Return")>>)

\* Units of several functions.
FuncBodies == {identity, answer, fallthrough, is_zero}
FuncUnits == SeqsUpTo(FuncBodies, 1, MaxFuncs)

\* One function of several blocks.
SampleBlocks ==
    {BasicBlockData(<<>>, "Return"),
     BasicBlockData(<<>>, "Goto"),
     BasicBlockData(<<Marker("Nop"), Assign(Local(0), UseCopy(Local(1)))>>, "Return"),
     BasicBlockData(<<Assign(Local(0), UseConstant(ScalarRaw(I32, Byte(42))))>>, "Return"),
     BasicBlockData(<<Assign(Local(0), UseCopy(Local(2)))>>, "Return"),
     BasicBlockData(<<Marker("StorageLive"), Assign(Local(0), UseMove(Local(1))),
                      Marker("StorageDead")>>, "SwitchInt")}
BlockUnits == {<<Body("f", I32, <<I32>>, bs)>> : bs \in SeqsUpTo(SampleBlocks, 1, MaxBlocks)}

\* One block of several statements.
SampleStmts ==
    {Marker("Nop"), Marker("StorageLive"), Marker("StorageDead"), Marker("SetDiscriminant"),
     Assign(Local(0), UseCopy(Local(1))),
     Assign(Local(1), UseConstant(ScalarRaw(I32, Byte(7)))),
     Assign(Place("Local", 0, <<"Field">>), UseCopy(Local(1)))}
StmtUnits ==
    {<<Body("g", I32, <<I32>>, <<BasicBlockData(ss, t)>>)>> :
        ss \in SeqsUpTo(SampleStmts, 0, MaxStmts), t \in {"Return", "Call"}}

\* One assignment over every kind of place, operand and constant.
ArgPattern == <<I32, UintTy("U8"), IntTy("I64"), UintTy("Usize"), IntTy("I16")>>
Args(k) == [i \in 1..k |-> ArgPattern[((i - 1) % Len(ArgPattern)) + 1]]

Places(k) ==
    {Place(b, n, pr) : b \in {"Local", "Static"}, n \in 0..(k + 2),
                       pr \in {<<>>, <<"Field">>, <<"Deref", "Index">>}}

Patterns(ty) ==
    {Byte(0), Byte(42), SignedMax(SizeOf(ty)), SignBit(SizeOf(ty)), AllOnes(SizeOf(ty))}

Consts ==
    UNION {{ScalarRaw(ty, d) : d \in Patterns(ty)} :
              ty \in {t \in AllTys : t.kind \in {"Int", "Uint"}}}
    \cup {ScalarRaw(Ty("Bool", "", 0), Byte(1)), ScalarRaw(Ty("Char", "", 0), Byte(65))}
    \cup {Const(I32, v, <<>>) : v \in {"Value(Scalar(Ptr))", "Value(Slice)", "Value(ByRef)",
                                        "Unevaluated"}}

WideStmts(k) ==
    {Assign(p, UseCopy(Local(0))) : p \in Places(k)}
    \cup {Assign(Local(0), UseCopy(p)) : p \in Places(k)}
    \cup {Assign(Local(0), UseMove(p)) : p \in Places(k)}
    \cup {Assign(Local(k + 1), UseCopy(Place("Local", 0, <<"Field">>))),
          Assign(Local(0), Rvalue("BinaryOp", NoPlace, NoConst)),
          Assign(Local(0), Rvalue("Ref", Local(0), NoConst))}

WideUnits ==
    UNION {{<<Body("h", I32, Args(k), <<BasicBlockData(<<s>>, "Return")>>)>> :
               s \in WideStmts(k)} : k \in 0..MaxArgs}
    \cup {<<Body("c", c.ty, <<>>,
                 <<BasicBlockData(<<Assign(Local(0), UseConstant(c))>>, "Return")>>)>> :
             c \in {d \in Consts : convert_type(d.ty).ok}}
    \cup {<<Body("c", I32, <<>>,
                 <<BasicBlockData(<<Assign(Local(0), UseConstant(c))>>, "Return")>>)>> :
             c \in Consts}
    \cup {<<Body("r", ty, <<>>, <<BasicBlockData(<<>>, "Return")>>)>> : ty \in AllTys}
    \cup {<<Body("a", UnitTy, [Args(MaxArgs) EXCEPT ![i] = ty],
                 <<BasicBlockData(<<>>, "Return")>>)>> : ty \in AllTys, i \in 1..MaxArgs}

\* A constant that lowers, then any constant.
ConstPairUnits ==
    {<<Body("p", I32, <<>>,
            <<BasicBlockData(<<Assign(Local(0), UseConstant(ScalarRaw(I32, Byte(42)))),
                               Assign(Local(0), UseConstant(c))>>, "Return")>>)>> :
        c \in Consts}

Units == FuncUnits \cup BlockUnits \cup StmtUnits \cup WideUnits \cup ConstPairUnits

\* -------------------------------------------------------------------- Spec
Init ==
    /\ unit \in Units
    /\ fidx = 1
    /\ pc = "loop"
    /\ bi = 0 /\ si = 0
    /\ err = "none"
    /\ return_type = NULL_TREE /\ arg_types = <<>> /\ fn_decl = NULL_TREE
    /\ res_decl = NULL_TREE /\ parm_decls = <<>> /\ block_labels = <<>>
    /\ main_gcc_block = NULL_TREE /\ stmt_list = NULL_TREE
    /\ nodes = InitialNodes
    /\ fns = <<>>
    /\ calls = <<>>

Next ==
    \/ MakeFunctionReturnType
    \/ MakeFunctionArgTypes
    \/ NewFunction
    \/ NewMainBlock
    \/ NewResultDecl
    \/ AddParmDecls
    \/ NewBlockLabels
    \/ NewStatementList
    \/ PushBlockLabel
    \/ ConvertStatement
    \/ ConvertTerminator
    \/ BindBody
    \/ Gimplify
    \/ FinalizeFunction
    \/ Done

Spec == Init /\ [][Next]_vars

\* ------------------------------------------------------------------ claims
Range(f) == {f[i] : i \in DOMAIN f}
CallsOf(f) == SelectSeq(calls, LAMBDA c : c.fn = f)
Count(cs, op) == Len(SelectSeq(cs, LAMBDA c : c.op = op))

\* A FunctionConversion exists and is walking (or has walked) the blocks.
Emitting == bi >= 1
EmittedList == nodes[stmt_list].ops

\* The conversion panicked inside the statement loop, at statement si of block bi.
AbortedAtStatement == pc = "aborted" /\ bi >= 1 /\ si <= Len(CurBlock.statements)
AbortedAtTerminator == pc = "aborted" /\ bi >= 1 /\ si > Len(CurBlock.statements)

\* Statements of block b the walk is past: all of them for earlier blocks, those
\* before si for the current one.
PastCount(b) ==
    IF b < bi THEN Len(Cur.basic_blocks[b].statements)
    ELSE IF b = bi /\ pc # "block" THEN si - 1
    ELSE 0

\* What a block is expected to leave in the list: its label, one entry per Assign
\* among its first n statements and, when complete, its return.
Entry(kind, b, stmt) == [kind |-> kind, block |-> b, stmt |-> stmt]
AssignsIn(b, n) ==
    SelectSeq(SubSeq(Cur.basic_blocks[b].statements, 1, n), LAMBDA st : st.kind = "Assign")
Segment(b, n, complete) ==
    <<Entry("label", b, Marker("Nop"))>>
    \o [i \in 1..Len(AssignsIn(b, n)) |-> Entry("assign", b, AssignsIn(b, n)[i])]
    \o (IF complete THEN <<Entry("return", b, Marker("Nop"))>> ELSE <<>>)

RECURSIVE Segments(_)
Segments(b) ==
    IF b = 0 THEN <<>>
    ELSE Segments(b - 1) \o Segment(b, Len(Cur.basic_blocks[b].statements), TRUE)

\* The declaration a slot stands for: the result for slot 0, else the parameter.
DeclOf(n) == IF n = 0 THEN res_decl ELSE fns[fn_decl].parms[n]

IsEntry(h, e) ==
    CASE e.kind = "label" -> h = block_labels[e.block] /\ nodes[h].code = "LabelDecl"
      [] e.kind = "return" -> nodes[h].code = "ReturnExpr" /\ nodes[h].ops = <<res_decl>>
      [] OTHER ->
            /\ nodes[h].code = "InitExpr"
            /\ nodes[h].ops[1] = DeclOf(e.stmt.place.local)
            /\ IF e.stmt.rvalue.kind = "Use(Constant)"
               THEN /\ nodes[nodes[h].ops[2]].code = "IntegerCst"
                    /\ nodes[nodes[h].ops[2]].ty = convert_type(e.stmt.rvalue.literal.ty).tree
                    /\ nodes[nodes[h].ops[2]].value = Num(FALSE, e.stmt.rvalue.literal.data)
               ELSE nodes[h].ops[2] = DeclOf(e.stmt.rvalue.place.local)

ListIs(expected) ==
    /\ Len(EmittedList) = Len(expected)
    /\ \A k \in 1..Len(expected) : IsEntry(EmittedList[k], expected[k])

\* The list the bind node attached to the function carries.
BodyList == nodes[nodes[fns[fn_decl].saved_tree].ops[2]].ops

\* C1: once a body was lowered without a panic, the statement list handed to the
\* backend is, block after block in index order, the block's label, one
\* assignment (destination declaration, source value) per Assign statement in
\* order - nothing for StorageLive, StorageDead and Nop - and the return of the
\* result declaration.
C1_StatementListIsConcatenation ==
    pc \in {"gimplify", "finalize_function"} =>
        /\ BodyList = EmittedList
        /\ ListIs(Segments(Len(Cur.basic_blocks)))

C1_Witness ==
    /\ pc = "gimplify"
    /\ Cur = identity
    /\ BodyList = <<block_labels[1], BodyList[2], BodyList[3]>>
    /\ nodes[BodyList[2]].code = "InitExpr"
    /\ nodes[BodyList[2]].ops = <<res_decl, parm_decls[1]>>
    /\ nodes[BodyList[3]].code = "ReturnExpr"
    /\ nodes[BodyList[3]].ops = <<res_decl>>

\* C2: in a function of K arguments get_place resolves slot 0 to the result
\* declaration, slot i in 1..K to the i-th parameter declaration in argument
\* order, and panics with unimplemented-local for slot K+1 and above; an
\* assignment to such a slot ends the pass with that panic.
C2_PlaceResolution ==
    Emitting =>
        LET K == Len(Cur.args) IN
        /\ get_place(Local(0)) = Resolved(res_decl)
        /\ \A i \in 1..K :
              /\ get_place(Local(i)) = Resolved(fns[fn_decl].parms[i])
              /\ nodes[get_place(Local(i)).tree].code = "ParmDecl"
              /\ nodes[get_place(Local(i)).tree].ty = convert_type(Cur.args[i]).tree
        /\ \A n \in (K + 1)..(K + 3) : get_place(Local(n)) = Panic("unimplemented-local")
        /\ \A b \in 1..Len(Cur.basic_blocks) : \A i \in 1..PastCount(b) :
              LET st == Cur.basic_blocks[b].statements[i] IN
              st.kind = "Assign" => st.place.local <= K
        /\ (/\ AbortedAtStatement
            /\ CurBlock.statements[si].kind = "Assign"
            /\ CurBlock.statements[si].place.base = "Local"
            /\ CurBlock.statements[si].place.projection = <<>>
            /\ CurBlock.statements[si].place.local > K) => err = "unimplemented-local"

C2_Witness ==
    /\ AbortedAtStatement
    /\ Len(Cur.args) = 2
    /\ CurBlock.statements[si].place = Local(3)
    /\ err = "unimplemented-local"
    /\ get_place(Local(2)) = Resolved(parm_decls[2])

\* Whether an rvalue reads a place (copy or move) with a non-empty projection.
ReadsProjection(rv) == rv.kind \in {"Use(Copy)", "Use(Move)"} /\ rv.place.projection # <<>>

\* C3: get_place panics with unimplemented-projection on every place whose
\* projection is not empty, whatever its base, as an assignment's destination
\* and as a copied or moved operand; no assignment node is appended for it.
C3_ProjectionRejected ==
    Emitting =>
        /\ \A p \in Places(Len(Cur.args)) :
              p.projection # <<>> =>
                 /\ get_place(p) = Panic("unimplemented-projection")
                 /\ convert_rvalue(UseCopy(p)).err = "unimplemented-projection"
                 /\ convert_rvalue(UseMove(p)).err = "unimplemented-projection"
        /\ \A b \in 1..Len(Cur.basic_blocks) : \A i \in 1..PastCount(b) :
              LET st == Cur.basic_blocks[b].statements[i] IN
              st.kind = "Assign" =>
                 st.place.projection = <<>> /\ ~ReadsProjection(st.rvalue)
        /\ (AbortedAtStatement /\ CurBlock.statements[si].kind = "Assign") =>
              LET st == CurBlock.statements[si] IN
              /\ st.place.projection # <<>> => err = "unimplemented-projection"
              /\ (get_place(st.place).err = "none" /\ ReadsProjection(st.rvalue)) =>
                    err = "unimplemented-projection"
              /\ ListIs(Segments(bi - 1) \o Segment(bi, si - 1, FALSE))

C3_Witness ==
    /\ AbortedAtStatement
    /\ err = "unimplemented-projection"
    /\ CurBlock.statements[si].kind = "Assign"
    /\ CurBlock.statements[si].place = Local(0)
    /\ CurBlock.statements[si].rvalue = UseMove(Place("Local", 1, <<"Field">>))
    /\ Len(Cur.args) >= 1
    /\ EmittedList = <<block_labels[1]>>

\* The integer a Scalar::Raw bit pattern of the type denotes: rustc keeps a
\* negative value of a signed type as its two's complement at the type's width.
NumericValue(ty, data) ==
    IF ty.kind = "Int" /\ data[SizeOf(ty)] >= 128
    THEN Num(TRUE, TwosComplement(data, SizeOf(ty)))
    ELSE Num(FALSE, data)

\* An assignment of a plain scalar constant of an 8, 16, 32, 64 bit or pointer
\* wide integer type.
PlainIntConstant(st) ==
    /\ st.kind = "Assign"
    /\ st.rvalue.kind = "Use(Constant)"
    /\ st.rvalue.literal.val = "Value(Scalar(Raw))"
    /\ st.rvalue.literal.ty.kind \in {"Int", "Uint"}
    /\ st.rvalue.literal.ty.sub \in IntWidths \cup UintWidths

LastEmitted == nodes[EmittedList[Len(EmittedList)]]

\* C4: every plain scalar constant of a supported integer type, negative values
\* included, is lowered - never refused - to an integer literal node of the
\* lowered type whose value is the constant's numeric value.
C4_ConstantKeepsItsValue ==
    Emitting =>
        /\ ~(/\ AbortedAtStatement
             /\ PlainIntConstant(CurBlock.statements[si])
             /\ get_place(CurBlock.statements[si].place).err = "none")
        /\ (pc = "stmt" /\ si > 1 /\ PlainIntConstant(CurBlock.statements[si - 1])) =>
              LET lit == CurBlock.statements[si - 1].rvalue.literal
                  cst == nodes[LastEmitted.ops[2]]
              IN /\ cst.code = "IntegerCst"
                 /\ cst.ty = convert_type(lit.ty).tree
                 /\ cst.value = NumericValue(lit.ty, lit.data)

\* Handles the calls made for function f returned, the interned types aside.
CreatedFor(f) ==
    {c.res : c \in {d \in Range(CallsOf(f)) : d.op # "convert_type" /\ d.res # NULL_TREE}}

\* C5 as stated: when an unimplemented case is raised no function of the unit -
\* the failing one or an earlier one - has a body attached, is gimplified or is
\* finalized, and nothing created for the failing function is left in the backend.
C5_NoPartialOutput ==
    err # "none" =>
        /\ \A h \in DOMAIN fns :
              fns[h].saved_tree = NULL_TREE /\ ~fns[h].gimplified /\ ~fns[h].finalized
        /\ CreatedFor(fidx) \cap DOMAIN nodes = {}

\* C5 as amended: when an unimplemented case is raised the failing function has
\* no body attached and is neither gimplified nor finalized; the functions
\* lowered before it keep their attached body and stay gimplified and finalized,
\* and what the backend built for the failing function stays in its arena.
C5_FailingFunctionNotHandedOff ==
    err # "none" =>
        /\ \A h \in DOMAIN fns \cap {fn_decl} :
              fns[h].saved_tree = NULL_TREE /\ ~fns[h].gimplified /\ ~fns[h].finalized
        /\ \A h \in DOMAIN fns \ {fn_decl} :
              fns[h].saved_tree # NULL_TREE /\ fns[h].gimplified /\ fns[h].finalized
        /\ Cardinality(DOMAIN fns \ {fn_decl}) = fidx - 1
        /\ Count(calls, "finalize_function") = fidx - 1
        /\ Count(CallsOf(fidx), "set_fn_saved_tree") = 0
        /\ CreatedFor(fidx) \subseteq DOMAIN nodes

C5_Witness ==
    /\ err = "unimplemented-terminator"
    /\ fidx = 2
    /\ fn_decl \in DOMAIN fns
    /\ CreatedFor(2) # {}
    /\ \E h \in DOMAIN fns : fns[h].finalized

\* C6: when block k panics, the list holds the complete segments of the blocks
\* before k, then the label of k and the assignments of k translated so far;
\* no label, assignment or return of a later block is in it.
C6_NothingEmittedPastFailingBlock ==
    (pc = "aborted" /\ bi >= 1) =>
        /\ ListIs(Segments(bi - 1) \o Segment(bi, si - 1, FALSE))
        /\ \A b \in (bi + 1)..Len(Cur.basic_blocks) : block_labels[b] \notin Range(EmittedList)
        /\ Cardinality({k \in 1..Len(EmittedList) :
                          nodes[EmittedList[k]].code = "ReturnExpr"}) = bi - 1

C6_Witness ==
    /\ AbortedAtTerminator
    /\ err = "unimplemented-terminator"
    /\ Cur = fallthrough
    /\ bi = 1
    /\ EmittedList = <<block_labels[1]>>
    /\ nodes[block_labels[2]].code = "LabelDecl"

\* The backend calls of each lifecycle state of FunctionConversion.
DeclOps ==
    {"build_function_type_array", "build_fn_decl", "set_fn_external", "set_fn_preserve_p",
     "build_block", "set_fn_initial", "build_decl", "set_fn_result", "add_fn_parm_decls",
     "create_artificial_label", "alloc_stmt_list"}
EmitOps == {"append_to_statement_list", "build2", "build1", "build_int_constant"}
BindOps == {"build3", "set_fn_saved_tree"}
HandoffOps == {"gimplify_function_tree", "finalize_function"}

\* Every call of cs with an operation of A comes before every one with one of B.
AllBefore(cs, A, B) ==
    \A i \in 1..Len(cs) : \A j \in 1..Len(cs) :
        (cs[i].op \in A /\ cs[j].op \in B) => i < j

LifecycleOf(f) ==
    LET cs == CallsOf(f)
        K == Len(unit[f].args)
        B == Len(unit[f].basic_blocks)
    IN /\ AllBefore(cs, DeclOps, EmitOps \cup BindOps \cup HandoffOps)
       /\ AllBefore(cs, EmitOps, BindOps \cup HandoffOps)
       /\ AllBefore(cs, BindOps, HandoffOps)
       /\ \A op \in (DeclOps \ {"create_artificial_label"}) \cup BindOps \cup HandoffOps :
             Count(cs, op) <= 1
       \* type resolution: the return type, then the arguments, then the declaration
       /\ Count(cs, "build_fn_decl") = 1 =>
             /\ cs[1].op = "convert_type" /\ cs[1].ty = unit[f].return_ty
             /\ \A i \in 1..K : cs[i + 1].op = "convert_type" /\ cs[i + 1].ty = unit[f].args[i]
             /\ cs[K + 2].op = "build_function_type_array"
             /\ cs[K + 2].args = [i \in 1..(K + 1) |-> cs[i].res]
             /\ cs[K + 3].op = "build_fn_decl" /\ cs[K + 3].args = <<cs[K + 2].res>>
       /\ \A i \in (K + 2)..Len(cs) :
             cs[i].op = "convert_type" =>
                \E j \in 1..(i - 1) : cs[j].op = "alloc_stmt_list"
       /\ AllBefore(cs, {"convert_type"}, BindOps \cup HandoffOps)
       \* declaration allocation is complete before the first statement
       /\ Count(cs, "append_to_statement_list") >= 1 =>
             /\ \A op \in {"build_fn_decl", "build_block", "build_decl", "add_fn_parm_decls",
                           "alloc_stmt_list"} : Count(cs, op) = 1
             /\ Count(cs, "create_artificial_label") = B
       \* binding follows the last block's terminator
       /\ Count(cs, "build3") = 1 => Count(cs, "build1") = B
       \* handoff: attach, gimplify, finalize(no_collect = true), and nothing after
       /\ AllBefore(cs, {"build3"}, {"set_fn_saved_tree"})
       /\ AllBefore(cs, {"set_fn_saved_tree"}, {"gimplify_function_tree"})
       /\ AllBefore(cs, {"gimplify_function_tree"}, {"finalize_function"})
       /\ Count(cs, "gimplify_function_tree") <= Count(cs, "set_fn_saved_tree")
       /\ Count(cs, "finalize_function") <= Count(cs, "gimplify_function_tree")
       /\ \A i \in 1..Len(cs) :
             cs[i].op = "finalize_function" => cs[i].flag /\ i = Len(cs)

\* C7: the backend calls of one function come in the order type resolution,
\* declaration allocation, body emission, binding, handoff, no state entered
\* twice: types before the declaration; declaration, scope, result, parameters
\* and one label per block before the first statement; the bind node after the
\* last terminator; gimplification after the body is attached and before
\* finalization with no_collect = true; nothing after finalization.
C7_LifecycleOrder == \A f \in 1..Len(unit) : LifecycleOf(f)

C7_Witness ==
    /\ pc = "done"
    /\ Len(unit[1].basic_blocks) = 2
    /\ Count(CallsOf(1), "create_artificial_label") = 2
    /\ Count(CallsOf(1), "build2") >= 1
    /\ CallsOf(1)[Len(CallsOf(1))].op = "finalize_function"

\* The backend primitive the spec gives for each supported type.
PrimitiveOf(ty) ==
    CASE ty = UnitTy -> "void"
      [] ty = IntTy("I8") -> "signed char"
      [] ty = IntTy("I16") -> "short"
      [] ty = IntTy("I32") -> "int"
      [] ty = IntTy("I64") -> "long long"
      [] ty = IntTy("Isize") -> "long"
      [] ty = UintTy("U8") -> "unsigned char"
      [] ty = UintTy("U16") -> "unsigned short"
      [] ty = UintTy("U32") -> "unsigned int"
      [] ty = UintTy("U64") -> "unsigned long long"
      [] ty = UintTy("Usize") -> "unsigned long"
      [] OTHER -> "unimplemented"

\* C8: every convert_type call, whenever it is made, returns for a supported
\* type the interned handle of the one primitive the table gives (the same
\* handle for the same type), and for any other type returns nothing and
\* panics with unimplemented-type.
C8_TypeLoweringTable ==
    /\ \A i \in 1..Len(calls) :
          calls[i].op = "convert_type" =>
             IF PrimitiveOf(calls[i].ty) # "unimplemented"
             THEN /\ calls[i].res \in DOMAIN InitialNodes
                  /\ nodes[calls[i].res] = InitialNodes[calls[i].res]
                  /\ nodes[calls[i].res].name = PrimitiveOf(calls[i].ty)
             ELSE /\ calls[i].res = NULL_TREE
                  /\ i = Len(calls)
                  /\ err = "unimplemented-type"
    /\ \A i \in 1..Len(calls) : \A j \in 1..Len(calls) :
          (/\ calls[i].op = "convert_type" /\ calls[j].op = "convert_type"
           /\ calls[i].ty = calls[j].ty) => calls[i].res = calls[j].res

C8_Witness ==
    /\ err = "unimplemented-type"
    /\ calls[Len(calls)].ty = Ty("Bool", "", 0)
    /\ \E i \in 1..Len(calls) : \E j \in (i + 1)..Len(calls) :
          /\ calls[i].op = "convert_type" /\ calls[j].op = "convert_type"
          /\ calls[i].fn = 1 /\ calls[j].fn = 1
          /\ calls[i].ty = I32 /\ calls[j].ty = I32
          /\ calls[i].res = calls[j].res
          /\ nodes[calls[i].res].name = "int"

\* C9: the calls made for function i all come before the first call made for
\* function i+1, each earlier function ending with its finalization, and once
\* an unimplemented case is raised the pass makes no further step.
C9_OneFunctionAtATime ==
    /\ \A i \in 1..Len(calls) : \A j \in (i + 1)..Len(calls) : calls[i].fn <= calls[j].fn
    /\ \A c \in Range(calls) : c.fn <= fidx /\ c.fn <= Len(unit)
    /\ \A f \in 1..(fidx - 1) :
          /\ CallsOf(f) # <<>>
          /\ CallsOf(f)[Len(CallsOf(f))].op = "finalize_function"
    /\ err # "none" => ~(ENABLED Next)

C9_Witness ==
    /\ err # "none"
    /\ fidx = 2
    /\ Len(unit) >= 2
    /\ Count(CallsOf(1), "finalize_function") = 1
    /\ Len(CallsOf(2)) >= 10
    /\ calls[Len(calls)].fn = 2

\* Handles the conversion in progress holds.
Held ==
    ({fn_decl, res_decl, main_gcc_block, stmt_list} \cup Range(parm_decls)
        \cup Range(block_labels)) \ {NULL_TREE}

\* C10: every lowering requests its own function declaration: after n
\* lowerings the backend got n build_fn_decl requests, all answered with
\* different handles, and n finalizations, and a lowering holds no handle that
\* was created for an earlier one - also when name and body are the same.
C10_NoMemoization ==
    /\ \A f \in 1..Len(unit) :
          Count(CallsOf(f), "build_fn_decl")
             = IF f < fidx \/ (f = fidx /\ fn_decl # NULL_TREE) THEN 1 ELSE 0
    /\ Count(calls, "finalize_function") = fidx - 1
    /\ Cardinality({c.res : c \in {d \in Range(calls) : d.op = "build_fn_decl"}})
          = Count(calls, "build_fn_decl")
    /\ \A f \in 1..Len(unit) : \A g \in (f + 1)..Len(unit) :
          CreatedFor(f) \cap CreatedFor(g) = {}
    /\ \A f \in 1..(fidx - 1) : Held \cap CreatedFor(f) = {}

C10_Witness ==
    /\ pc = "done"
    /\ Len(unit) = 2
    /\ unit[1] = unit[2]
    /\ Count(calls, "build_fn_decl") = 2
    /\ Count(calls, "finalize_function") = 2
    /\ Cardinality(DOMAIN fns) = 2

\* A raw encoding above 2^63 - 1: a bit at or above bit 63 is set.
ExceedsI64Max(data) ==
    (\E i \in (I64Bytes + 1)..U128Bytes : data[i] # 0) \/ data[I64Bytes] >= 128

\* An assignment of a plain scalar constant of any integer type.
IntConstant(st) ==
    /\ st.kind = "Assign"
    /\ st.rvalue.kind = "Use(Constant)"
    /\ st.rvalue.literal.val = "Value(Scalar(Raw))"
    /\ st.rvalue.literal.ty.kind \in {"Int", "Uint"}

\* The statements of the current block the walk is past.
PastStatements == SubSeq(CurBlock.statements, 1, PastCount(bi))

\* C11: an integer constant whose raw encoding exceeds 2^63 - 1 never becomes
\* a literal node: lowering aborts at that constant - on the failed conversion
\* to i64 when its type lowers - and its assignment is not appended; every
\* literal node built holds a non-negative value within 0 .. 2^63 - 1 that is
\* the raw encoding of its constant.
C11_OverflowingConstantAborts ==
    Emitting =>
        /\ \A h \in DOMAIN nodes :
              nodes[h].code = "IntegerCst" =>
                 ~nodes[h].value.neg /\ ~ExceedsI64Max(nodes[h].value.mag)
        /\ \A i \in 1..Len(PastStatements) :
              IntConstant(PastStatements[i]) =>
                 ~ExceedsI64Max(PastStatements[i].rvalue.literal.data)
        /\ Count(CallsOf(fidx), "build_int_constant")
              = Len(SelectSeq(PastStatements, IntConstant))
                + Len(SelectSeq(Segments(bi - 1),
                                LAMBDA e : e.kind = "assign" /\ IntConstant(e.stmt)))
        /\ (pc = "stmt" /\ si > 1 /\ IntConstant(CurBlock.statements[si - 1])) =>
              nodes[LastEmitted.ops[2]].value
                 = Num(FALSE, CurBlock.statements[si - 1].rvalue.literal.data)
        /\ (/\ pc = "stmt" /\ si <= Len(CurBlock.statements)
            /\ IntConstant(CurBlock.statements[si])
            /\ ExceedsI64Max(CurBlock.statements[si].rvalue.literal.data)) =>
              ~(ENABLED (ConvertStatement /\ err' = "none"))
        /\ (/\ AbortedAtStatement
            /\ IntConstant(CurBlock.statements[si])
            /\ ExceedsI64Max(CurBlock.statements[si].rvalue.literal.data)
            /\ get_place(CurBlock.statements[si].place).err = "none") =>
              /\ err = IF convert_type(CurBlock.statements[si].rvalue.literal.ty).ok
                       THEN "unwrap-TryFromIntError" ELSE "unimplemented-type"
              /\ ListIs(Segments(bi - 1) \o Segment(bi, si - 1, FALSE))

C11_Witness ==
    /\ AbortedAtStatement
    /\ err = "unwrap-TryFromIntError"
    /\ si = 2
    /\ CurBlock.statements[2].rvalue.literal = ScalarRaw(UintTy("U64"), AllOnes(I64Bytes))
    /\ Len(EmittedList) = 2
    /\ nodes[nodes[EmittedList[2]].ops[2]].value = Num(FALSE, Byte(42))
    /\ Cardinality({h \in DOMAIN nodes : nodes[h].code = "IntegerCst"}) = 1

====
